---------------------------- MODULE Spec2Model ----------------------------
(***************************************************************************)
(* Model of the static discovery engine of adaptive_tests_py               *)
(* (packages/adaptive-tests-py/src/adaptive_tests_py/discovery.py).        *)
(*                                                                         *)
(* Strings are TLA+ strings; Python's str methods are modelled character   *)
(* by character on them.  An unset Optional[str] (None) is written "": the *)
(* source only ever tests these fields for truthiness, where None and ""   *)
(* coincide.                                                               *)
(*                                                                         *)
(* Scores are exact rationals held as integers in units of 1/6000, so that *)
(* 0.2 * matches / len(methods) is exact for every len(methods) <= 6.      *)
(***************************************************************************)
EXTENDS Integers, Sequences, FiniteSets, TLC

VARIABLES
    tree,        \* the project tree under root: files in os.walk encounter order
    ignore,      \* DiscoveryEngine.ignore: tuple of posix prefixes
    sig,         \* the Signature of the last engine call
    ret,         \* outcome of the last call: [op, kind, value, obj, ran]
    held,        \* the winner the caller keeps from discover(load=False), with its signature
    executed,    \* the files whose top level has been executed so far, in order
    sysPath,     \* sys.path
    sysModules,  \* sys.modules: module name -> [file, pkgdirs, made]
    threads      \* the load() calls running as threads, each at a step of load

vars == <<tree, ignore, sig, ret, held, executed, sysPath, sysModules, threads>>

-----------------------------------------------------------------------------
(* Python str helpers *)

Range(seq) == {seq[i] : i \in DOMAIN seq}

CharAt(s, i) == SubSeq(s, i, i)

UpperChars == "ABCDEFGHIJKLMNOPQRSTUVWXYZ"
LowerChars == "abcdefghijklmnopqrstuvwxyz"

\* the lower-case letter of every upper-case letter
LowerOf ==
    [c \in {CharAt(UpperChars, i) : i \in 1..Len(UpperChars)} |->
        CharAt(LowerChars, CHOOSE i \in 1..Len(UpperChars) : CharAt(UpperChars, i) = c)]

LowerChar(c) == IF c \in DOMAIN LowerOf THEN LowerOf[c] ELSE c

RECURSIVE Lower(_)
Lower(s) ==
    IF s = "" THEN "" ELSE LowerChar(CharAt(s, 1)) \o Lower(SubSeq(s, 2, Len(s)))

StartsWith(s, p) == Len(p) <= Len(s) /\ SubSeq(s, 1, Len(p)) = p

EndsWith(s, p) == Len(p) <= Len(s) /\ SubSeq(s, Len(s) - Len(p) + 1, Len(s)) = p

\* Python's `t in s` for strings
Contains(s, t) ==
    \E i \in 0..(Len(s) - Len(t)) : SubSeq(s, i + 1, i + Len(t)) = t

\* str.split(sep) for a one-character separator
RECURSIVE SplitOn(_, _)
SplitOn(s, sep) ==
    IF \E i \in 1..Len(s) : CharAt(s, i) = sep
    THEN LET i == CHOOSE k \in 1..Len(s) :
                     /\ CharAt(s, k) = sep
                     /\ \A j \in 1..(k - 1) : CharAt(s, j) # sep
         IN  <<SubSeq(s, 1, i - 1)>> \o SplitOn(SubSeq(s, i + 1, Len(s)), sep)
    ELSE <<s>>

\* sep.join(parts)
RECURSIVE Join(_, _)
Join(parts, sep) ==
    IF parts = <<>> THEN ""
    ELSE IF Len(parts) = 1 THEN parts[1]
    ELSE parts[1] \o sep \o Join(Tail(parts), sep)

(* re.search(pattern, text) for the patterns the model draws: literal      *)
(* characters, the wildcard ".", a leading "^" and a trailing "$".         *)
ReSearch(pattern, text, ignorecase) ==
    LET atStart == StartsWith(pattern, "^")
        atEnd   == EndsWith(pattern, "$")
        body    == SubSeq(pattern, IF atStart THEN 2 ELSE 1,
                                   IF atEnd THEN Len(pattern) - 1 ELSE Len(pattern))
        Fold(c) == IF ignorecase THEN LowerChar(c) ELSE c
        HitAt(i) == \A k \in 1..Len(body) :
                        \/ CharAt(body, k) = "."
                        \/ Fold(CharAt(body, k)) = Fold(CharAt(text, i + k))
    IN  \E i \in 0..(Len(text) - Len(body)) :
            /\ atStart => i = 0
            /\ atEnd => i + Len(body) = Len(text)
            /\ HitAt(i)

-----------------------------------------------------------------------------
(* Scoring: DiscoveryEngine._score_candidate and its helpers *)

\* 0.01 in score units
Hundredth == 2 * 2 * 3 * 5

\* the weights of the source, in hundredths
NameExact == 70
NameRegex == 60
NamePrefix == 50
NameSuffix == 40
NameSubstring == 30
MethodsAll == 30
MethodsPartial == 20
DecoratorsAll == 5
BasesAll == 10
DocFragment == 2
ModuleExact == 10
ModulePattern == 5
FileStem == 2

\* name rules with the substring rule tried before the suffix rule
NameScoreSubstringFirst(candidate_name, s) ==
    IF s.regex
    THEN IF ReSearch(s.name, candidate_name, ~s.case_sensitive)
         THEN NameRegex * Hundredth ELSE 0
    ELSE LET candidate == IF s.case_sensitive THEN candidate_name ELSE Lower(candidate_name)
             target    == IF s.case_sensitive THEN s.name ELSE Lower(s.name)
         IN  IF candidate = target THEN NameExact * Hundredth
             ELSE IF StartsWith(candidate, target) THEN NamePrefix * Hundredth
             ELSE IF Contains(candidate, target) THEN NameSubstring * Hundredth
             ELSE IF EndsWith(candidate, target) THEN NameSuffix * Hundredth
             ELSE 0

NameScore(candidate_name, s) ==
    IF s.regex
    THEN IF ReSearch(s.name, candidate_name, ~s.case_sensitive)
         THEN NameRegex * Hundredth ELSE 0
    ELSE LET candidate == IF s.case_sensitive THEN candidate_name ELSE Lower(candidate_name)
             target    == IF s.case_sensitive THEN s.name ELSE Lower(s.name)
         IN  IF candidate = target THEN NameExact * Hundredth
             ELSE IF StartsWith(candidate, target) THEN NamePrefix * Hundredth
             ELSE IF EndsWith(candidate, target) THEN NameSuffix * Hundredth
             ELSE IF Contains(candidate, target) THEN NameSubstring * Hundredth
             ELSE 0

\* a kind rule in which function does not cover async_function
TypeMatchesSyncOnly(requested0, actual0) ==
    LET requested == Lower(IF requested0 = "" THEN "class" ELSE requested0)
        actual    == Lower(actual0)
    IN  IF requested \in {"any", "*"} THEN TRUE
        ELSE IF requested = "class" THEN actual = "class"
        ELSE requested = actual

TypeMatches(requested0, actual0) ==
    LET requested == Lower(IF requested0 = "" THEN "class" ELSE requested0)
        actual    == Lower(actual0)
    IN  IF requested \in {"any", "*"} THEN TRUE
        ELSE IF requested = "class" THEN actual = "class"
        ELSE IF requested = "function" THEN actual \in {"function", "async_function"}
        ELSE requested = actual

\* sum(1 for x in wanted if x in have)
CountIn(wanted, have) ==
    Cardinality({i \in DOMAIN wanted : wanted[i] \in Range(have)})

\* sum(1 for fragment in fragments if fragment.lower() in docstring)
DocMatches(fragments, docstring) ==
    Cardinality({i \in DOMAIN fragments : Contains(docstring, Lower(fragments[i]))})

\* Path(...).stem of a posix path: the last part without its last suffix
Stem(path) ==
    LET parts == SplitOn(path, "/")
        name  == parts[Len(parts)]
        dots  == {i \in 2..Len(name) : CharAt(name, i) = "."}
    IN  IF dots = {} THEN name
        ELSE SubSeq(name, 1, (CHOOSE i \in dots : \A j \in dots : j <= i) - 1)

\* what a criterion yields when it returns 0.0 from _score_candidate
Disqualified == 0 - 1

\* a methods rule that also rejects a coverage of exactly one half
MethodsBonusOverHalf(c, s) ==
    IF s.methods = <<>> THEN 0
    ELSE LET n       == Len(s.methods)
             matches == CountIn(s.methods, c.methods)
         IN  IF matches # n
             THEN IF 2 * matches <= n
                  THEN Disqualified
                  ELSE (MethodsPartial * Hundredth * matches) \div n
             ELSE MethodsAll * Hundredth

\* lines 326-334: signature.methods
MethodsBonus(c, s) ==
    IF s.methods = <<>> THEN 0
    ELSE LET n       == Len(s.methods)
             matches == CountIn(s.methods, c.methods)
         IN  IF matches # n
             THEN IF 2 * matches < n        \* ratio < 0.5
                  THEN Disqualified
                  ELSE (MethodsPartial * Hundredth * matches) \div n
             ELSE MethodsAll * Hundredth

\* a decorators rule that lets a candidate without the decorators through
DecoratorsBonusLenient(c, s) ==
    IF s.decorators = <<>> THEN 0
    ELSE IF CountIn(s.decorators, c.decorators) # Len(s.decorators) THEN 0
    ELSE DecoratorsAll * Hundredth

\* lines 336-340: signature.decorators
DecoratorsBonus(c, s) ==
    IF s.decorators = <<>> THEN 0
    ELSE IF CountIn(s.decorators, c.decorators) # Len(s.decorators) THEN Disqualified
    ELSE DecoratorsAll * Hundredth

\* lines 342-346: signature.bases
BasesBonus(c, s) ==
    IF s.bases = <<>> THEN 0
    ELSE IF CountIn(s.bases, c.bases) # Len(s.bases) THEN Disqualified
    ELSE BasesAll * Hundredth

\* lines 348-351: signature.docstring_contains
DocstringBonus(c, s) ==
    IF s.docstring_contains = <<>> THEN 0
    ELSE DocFragment * Hundredth * DocMatches(s.docstring_contains, Lower(c.docstring))

\* a module rule that applies the pattern even when the module is set
ModuleBonusBoth(c, s) ==
    IF s.module # "" /\ c.module # s.module THEN Disqualified
    ELSE IF s.module_pattern # "" /\ ~ReSearch(s.module_pattern, c.module, FALSE)
    THEN Disqualified
    ELSE (IF s.module # "" THEN ModuleExact * Hundredth ELSE 0)
         + (IF s.module_pattern # "" THEN ModulePattern * Hundredth ELSE 0)

\* lines 353-360: signature.module, else signature.module_pattern
ModuleBonus(c, s) ==
    IF s.module # ""
    THEN IF c.module # s.module THEN Disqualified ELSE ModuleExact * Hundredth
    ELSE IF s.module_pattern # ""
    THEN IF ~ReSearch(s.module_pattern, c.module, FALSE) THEN Disqualified
         ELSE ModulePattern * Hundredth
    ELSE 0

\* a stem rule that never adds anything
FileStemBonusNone(c, s) == 0 * Hundredth

\* lines 362-364: the file stem
FileStemBonus(c, s) ==
    IF Lower(Stem(c.file_path)) = Lower(s.name) THEN FileStem * Hundredth ELSE 0

RECURSIVE SumSeq(_)
SumSeq(xs) == IF xs = <<>> THEN 0 ELSE Head(xs) + SumSeq(Tail(xs))

\* the running total of _score_candidate: 0.0 as soon as the name or one of
\* the criteria returns it, else the name score plus every bonus
Accumulate(name_score, bonuses) ==
    IF name_score = 0 THEN 0
    ELSE IF \E i \in DOMAIN bonuses : bonuses[i] = Disqualified THEN 0
    ELSE name_score + SumSeq(bonuses)

ScoreCandidate(c, s) ==
    IF ~TypeMatches(s.type, c.type) THEN 0
    ELSE Accumulate(NameScore(c.name, s),
                    <<MethodsBonus(c, s), DecoratorsBonus(c, s), BasesBonus(c, s),
                      DocstringBonus(c, s), ModuleBonus(c, s), FileStemBonus(c, s)>>)

-----------------------------------------------------------------------------
(* The project tree.  A file is [path, content, body, onImport]: its posix *)
(* path relative to root, whether it can be read and parsed, its top-level *)
(* statements, and what executing its top level does.  A statement is      *)
(* [kind, name, lineno, methods, decorator_list, bases, docstring];        *)
(* decorator and base expressions are ast nodes: [k |-> "Name", id],       *)
(* [k |-> "Attribute", value, attr] or [k |-> "Call", func, args].         *)

Root == "/proj"

AbsPath(root, rel) == root \o "/" \o rel

DefaultIgnores == {"__pycache__", "node_modules", "build", "dist", "venv", ".venv", ".git"}

\* a directory test that looks at the whole relative path, not at its last part
ShouldSkipDirectoryWholePath(relative, ign) ==
    IF relative = "" \/ relative = "." THEN FALSE
    ELSE IF StartsWith(relative, ".") /\ relative \notin {".", ".."} THEN TRUE
         ELSE IF relative \in DefaultIgnores THEN TRUE
         ELSE \E i \in DOMAIN ign : StartsWith(relative, ign[i])

\* DiscoveryEngine._should_skip_directory, on the posix form of `relative`
ShouldSkipDirectory(relative, ign) ==
    IF relative = "" \/ relative = "." THEN FALSE
    ELSE LET parts == SplitOn(relative, "/")
             name  == parts[Len(parts)]
         IN  IF StartsWith(name, ".") /\ name \notin {".", ".."} THEN TRUE
             ELSE IF name \in DefaultIgnores THEN TRUE
             ELSE \E i \in DOMAIN ign : StartsWith(relative, ign[i])

\* a file test that looks at the whole relative path, not at the file name
ShouldSkipFileWholePath(rel, ign) ==
    IF StartsWith(rel, "test_") \/ EndsWith(rel, "_test.py") THEN TRUE
    ELSE \E i \in DOMAIN ign : StartsWith(rel, ign[i])

\* DiscoveryEngine._should_skip_file, on the path relative to root
ShouldSkipFile(rel, ign) ==
    LET parts == SplitOn(rel, "/")
        name  == parts[Len(parts)]
    IN  IF StartsWith(name, "test_") \/ EndsWith(name, "_test.py") THEN TRUE
        ELSE \E i \in DOMAIN ign : StartsWith(rel, ign[i])

\* whether os.walk, with dirnames pruned, reaches the directory of `rel`
DirectoryWalked(rel, ign) ==
    LET parts == SplitOn(rel, "/")
    IN  \A k \in 1..(Len(parts) - 1) :
            ~ShouldSkipDirectory(Join(SubSeq(parts, 1, k), "/"), ign)

\* DiscoveryEngine._iter_python_files: the files yielded, in encounter order
IterPythonFiles(files, ign) ==
    LET Yielded(f) == /\ DirectoryWalked(f.path, ign)
                      /\ EndsWith(f.path, ".py")
                      /\ ~ShouldSkipFile(f.path, ign)
    IN  SelectSeq(files, Yielded)

\* a derivation that keeps the init segment of a package-init file
ModuleNameForKeepInit(rel) ==
    LET parts == SplitOn(rel, "/")
        last  == parts[Len(parts)]
    IN  Join([parts EXCEPT ![Len(parts)] = SubSeq(last, 1, Len(last) - 3)], ".")

\* DiscoveryEngine._module_name_for
ModuleNameFor(rel) ==
    LET parts == SplitOn(rel, "/")
        last  == parts[Len(parts)]
        kept  == IF last = "__init__.py"
                 THEN SubSeq(parts, 1, Len(parts) - 1)
                 ELSE [parts EXCEPT ![Len(parts)] = SubSeq(last, 1, Len(last) - 3)]
    IN  Join(kept, ".")

\* DiscoveryEngine._expr_to_name; hasUnparse is hasattr(ast, "unparse")
RECURSIVE ExprToName(_, _)
ExprToName(expr, hasUnparse) ==
    IF expr.k = "Name" THEN expr.id
    ELSE IF expr.k = "Attribute"
         THEN ExprToName(expr.value, hasUnparse) \o "." \o expr.attr
    ELSE IF hasUnparse
         THEN ExprToName(expr.func, hasUnparse) \o "(" \o expr.args \o ")"
         ELSE ExprToName(expr.func, hasUnparse)

HasUnparse == TRUE

MapNames(exprs) == [i \in DOMAIN exprs |-> ExprToName(exprs[i], HasUnparse)]

(* What reading and parsing file f raises out of _extract_candidates.  A   *)
(* file's content is "ok", "unreadable" (read_text raises OSError),        *)
(* "syntax_error" (ast.parse raises SyntaxError) or "undecodable" (its     *)
(* bytes are not UTF-8: read_text raises UnicodeDecodeError, a ValueError  *)
(* that neither except clause catches).                                    *)
ExtractError(f) == IF f.content = "undecodable" THEN "UnicodeDecodeError" ELSE "none"

\* the exception of the first walked file whose extraction raises
FirstError(walked) ==
    IF \E i \in DOMAIN walked : ExtractError(walked[i]) # "none"
    THEN ExtractError(walked[CHOOSE i \in DOMAIN walked :
                                 /\ ExtractError(walked[i]) # "none"
                                 /\ \A j \in 1..(i - 1) : ExtractError(walked[j]) = "none"])
    ELSE "none"

\* the exception that ends the iteration of _match_candidates, "none" when it
\* runs to its end
MatchError(files, ign) == FirstError(IterPythonFiles(files, ign))

\* DiscoveryEngine._extract_candidates: the _Candidate records of one file
ExtractCandidates(root, f) ==
    IF f.content # "ok" THEN <<>>
    ELSE LET IsSymbol(node) ==
                 node.kind \in {"ClassDef", "FunctionDef", "AsyncFunctionDef"}
             nodes == SelectSeq(f.body, IsSymbol)
             Candidate(node) ==
                 [name       |-> node.name,
                  type       |-> IF node.kind = "ClassDef" THEN "class"
                                 ELSE IF node.kind = "FunctionDef" THEN "function"
                                 ELSE "async_function",
                  module     |-> ModuleNameFor(f.path),
                  file_path  |-> AbsPath(root, f.path),
                  lineno     |-> node.lineno,
                  methods    |-> IF node.kind = "ClassDef" THEN node.methods ELSE <<>>,
                  decorators |-> MapNames(node.decorator_list),
                  bases      |-> IF node.kind = "ClassDef" THEN MapNames(node.bases) ELSE <<>>,
                  docstring  |-> node.docstring]
         IN  [i \in DOMAIN nodes |-> Candidate(nodes[i])]

RECURSIVE Flatten(_)
Flatten(seqs) == IF seqs = <<>> THEN <<>> ELSE Head(seqs) \o Flatten(Tail(seqs))

\* every candidate of the walked files, in encounter order
AllCandidates(root, files, ign) ==
    LET walked == IterPythonFiles(files, ign)
    IN  Flatten([i \in DOMAIN walked |-> ExtractCandidates(root, walked[i])])

\* the DiscoveryResult built for a candidate (lines 218-230)
ResultOf(c, score, root) ==
    [name |-> c.name, type |-> c.type, module |-> c.module,
     file_path |-> c.file_path, lineno |-> c.lineno, methods |-> c.methods,
     decorators |-> c.decorators, bases |-> c.bases, docstring |-> c.docstring,
     score |-> score, root |-> root]

\* every candidate with its score, in encounter order
Scored(cands, s, root) ==
    [i \in DOMAIN cands |-> ResultOf(cands[i], ScoreCandidate(cands[i], s), root)]

\* a filter that lets a score of 0 through
YieldNonNegative(results) ==
    LET Keep(r) == ~(r.score < 0)
    IN  SelectSeq(results, Keep)

\* `if score <= 0: continue` (line 216)
Yield(results) ==
    LET Keep(r) == ~(r.score <= 0)
    IN  SelectSeq(results, Keep)

\* DiscoveryEngine._match_candidates: the results yielded, in encounter order
MatchCandidates(root, files, ign, s) ==
    Yield(Scored(AllCandidates(root, files, ign), s, root))

\* a scan in which the last of several equal scores wins
RECURSIVE BestFromLast(_, _)
BestFromLast(best, rest) ==
    IF rest = <<>> THEN best
    ELSE IF best = <<>> \/ Head(rest).score >= best[1].score
         THEN BestFromLast(<<Head(rest)>>, Tail(rest))
         ELSE BestFromLast(best, Tail(rest))

\* DiscoveryEngine._best_match: <<>> stands for `best is None`
RECURSIVE BestFrom(_, _)
BestFrom(best, rest) ==
    IF rest = <<>> THEN best
    ELSE IF best = <<>> \/ Head(rest).score > best[1].score
         THEN BestFrom(<<Head(rest)>>, Tail(rest))
         ELSE BestFrom(best, Tail(rest))

BestMatch(root, files, ign, s) == BestFrom(<<>>, MatchCandidates(root, files, ign, s))

\* a sort that puts an element behind the later elements of equal score
RECURSIVE SortedByScoreTiesReversed(_)
SortedByScoreTiesReversed(results) ==
    IF results = <<>> THEN <<>>
    ELSE LET rest == SortedByScoreTiesReversed(Tail(results))
             x    == Head(results)
             ahead == {i \in DOMAIN rest : \A j \in 1..i : rest[j].score >= x.score}
             k    == Cardinality(ahead)
         IN  SubSeq(rest, 1, k) \o <<x>> \o SubSeq(rest, k + 1, Len(rest))

\* sorted(results, key=score, reverse=True): stable, equal scores keep their order
RECURSIVE SortedByScore(_)
SortedByScore(results) ==
    IF results = <<>> THEN <<>>
    ELSE LET rest == SortedByScore(Tail(results))
             x    == Head(results)
             \* x goes before the first element of rest that does not outrank it
             ahead == {i \in DOMAIN rest : \A j \in 1..i : rest[j].score > x.score}
             k    == Cardinality(ahead)
         IN  SubSeq(rest, 1, k) \o <<x>> \o SubSeq(rest, k + 1, Len(rest))

\* DiscoveryEngine.discover_all: <<>> stands for raising DiscoveryError
DiscoverAllResults(root, files, ign, s) ==
    SortedByScore(MatchCandidates(root, files, ign, s))

-----------------------------------------------------------------------------
(* Bounded inputs *)

MaxMethods == 3

MethodNames == <<"add", "complete", "list", "remove", "clear", "count">>

\* method tuples: the first k method names, k <= MaxMethods
MethodTuples == {SubSeq(MethodNames, 1, k) : k \in 0..MaxMethods}

NameExpr(id) == [k |-> "Name", id |-> id]
CallExpr(func, args) == [k |-> "Call", func |-> func, args |-> args]
AttributeExpr(value, attr) == [k |-> "Attribute", value |-> value, attr |-> attr]

ClassDef(name, lineno, methods, decorator_list, bases, docstring) ==
    [kind |-> "ClassDef", name |-> name, lineno |-> lineno, methods |-> methods,
     decorator_list |-> decorator_list, bases |-> bases, docstring |-> docstring]

FunctionDef(kind, name, lineno, decorator_list, docstring) ==
    [kind |-> kind, name |-> name, lineno |-> lineno, methods |-> <<>>,
     decorator_list |-> decorator_list, bases |-> <<>>, docstring |-> docstring]

SourceFile(path, body) ==
    [path |-> path, content |-> "ok", body |-> body, onImport |-> "ok"]

\* Signature(...) after __post_init__
Signature(name, type, methods, module, module_pattern, decorators, bases, docstring_contains, regex, case_sensitive) ==
    [name |-> name, type |-> type, methods |-> methods, module |-> module,
     module_pattern |-> module_pattern, decorators |-> decorators, bases |-> bases,
     docstring_contains |-> docstring_contains, regex |-> regex,
     case_sensitive |-> case_sensitive]

\* Signature(name=..., methods=...) with every other field at its default
NamedSignature(name, methods) ==
    Signature(name, "class", methods, "", "", <<>>, <<>>, <<>>, FALSE, TRUE)

FullMethods == SubSeq(MethodNames, 1, MaxMethods)

DenseNames == {"TodoService", "TodoServiceLegacy", "MyTodoService", "XTodoServiceY",
               "UserRepo", "RepoHelper"}
DenseDocstrings == {"", "Primary Adaptive service"}
DenseNameQueries ==
    {<<"TodoService", FALSE, TRUE>>, <<"todoservice", FALSE, FALSE>>,
     <<"todoservice", FALSE, TRUE>>, <<"Repo$", TRUE, TRUE>>, <<"repo$", TRUE, FALSE>>}
DenseTypes == {"class", "function", "any", "async_function", "*", "Class", ""}
DenseModuleQueries ==
    {<<"", "">>, <<"services.todo", "">>, <<"", "^services">>,
     <<"services.todo", "^nowhere">>, <<"services.todo", "^services">>}

(* Inputs of the scoring runs: one-file, one-symbol trees with a signature. *)
(* Two slices keep the product small: the first is dense in names, kinds    *)
(* and methods, the second in decorators, bases, docstrings, modules and    *)
(* file stems.                                                              *)
NameTrees ==
    {<<SourceFile(p, <<node>>)>> :
        p \in {"services.py", "todoservice.py"},
        node \in {ClassDef(n, 1, m, <<>>, <<>>, doc) :
                      n \in DenseNames, m \in MethodTuples, doc \in DenseDocstrings}
                 \cup
                 {FunctionDef(k, n, 1, <<>>, "") :
                      k \in {"FunctionDef", "AsyncFunctionDef"}, n \in DenseNames}}

NameSignatures ==
    {Signature(q[1], t, m, "", "", <<>>, <<>>, frag, q[2], q[3]) :
        q \in DenseNameQueries, t \in DenseTypes, m \in MethodTuples,
        frag \in {<<>>, <<"adaptive">>}}

BonusTrees ==
    {<<SourceFile(p, <<node>>)>> :
        p \in {"services.py", "services/todo.py", "todoservice.py"},
        node \in {ClassDef(n, 1, m, d, b, doc) :
                      n \in {"TodoService", "TodoServiceLegacy"},
                      m \in {<<>>, FullMethods},
                      d \in {<<>>, <<NameExpr("dataclass")>>},
                      b \in {<<>>, <<NameExpr("Base")>>},
                      doc \in DenseDocstrings}
                 \cup
                 {FunctionDef("FunctionDef", n, 1, d, doc) :
                      n \in {"TodoService", "TodoServiceLegacy"},
                      d \in {<<>>, <<NameExpr("dataclass")>>},
                      doc \in DenseDocstrings}}

BonusSignatures ==
    {Signature("TodoService", t, m, mq[1], mq[2], d, b, frag, FALSE, TRUE) :
        t \in {"class", "any"}, m \in {<<>>, FullMethods},
        mq \in DenseModuleQueries, d \in {<<>>, <<"dataclass">>},
        b \in {<<>>, <<"Base">>},
        frag \in {<<>>, <<"adaptive">>, <<"Adaptive", "legacy">>}}

\* tests/test_discovery.py, test_discover_all_ranks_best_candidate: candidates.py
RankingFixture ==
    <<SourceFile("candidates.py",
        <<ClassDef("TodoServiceMixin", 1, <<"add">>, <<>>, <<>>, ""),
          ClassDef("TodoServiceLegacy", 5, <<"add", "complete">>, <<>>, <<>>, ""),
          ClassDef("TodoService", 12, <<"add", "complete", "list">>, <<>>, <<>>,
                   "Primary adaptive service")>>)>>

RankingSignature == NamedSignature("TodoService", <<"add", "complete", "list">>)

\* the regex scenario: UserRepo, AdminRepo and RepoHelper, queried with Repo$
RepoFixture ==
    <<SourceFile("repos.py",
        <<ClassDef("UserRepo", 1, <<>>, <<>>, <<>>, ""),
          ClassDef("AdminRepo", 5, <<>>, <<>>, <<>>, ""),
          ClassDef("RepoHelper", 9, <<>>, <<>>, <<>>, "")>>)>>

RepoSignature == Signature("Repo$", "class", <<>>, "", "", <<>>, <<>>, <<>>, TRUE, TRUE)

ScoreInputs ==
    (NameTrees \X NameSignatures) \cup (BonusTrees \X BonusSignatures)
    \cup {<<RankingFixture, RankingSignature>>, <<RepoFixture, RepoSignature>>}

-----------------------------------------------------------------------------
(* The import system, as far as DiscoveryResult.load drives it.            *)
(* sys.modules maps a module name to [file, pkgdirs]: the file whose top   *)
(* level produced the module ("" for a namespace package) and its __path__ *)
(* (<<>> for a plain module).  An import yields [outcome, module, mods,    *)
(* ran]: how it ended, the name registered, sys.modules afterwards and the *)
(* files whose top level it executed, in order.                            *)

FileExists(files, abs) ==
    \E i \in DOMAIN files : AbsPath(Root, files[i].path) = abs

DirExists(files, abs) ==
    \E i \in DOMAIN files : StartsWith(AbsPath(Root, files[i].path), abs \o "/")

FileAt(files, abs) ==
    files[CHOOSE i \in DOMAIN files : AbsPath(Root, files[i].path) = abs]

\* the attributes a module has once the top level of `abs` has run
NamesOf(files, abs) ==
    IF FileExists(files, abs)
    THEN {FileAt(files, abs).body[i].name : i \in DOMAIN FileAt(files, abs).body}
    ELSE {}

\* importlib's path finder: in each directory a package (a directory with
\* __init__.py) wins over a module file, which wins over a bare directory; bare
\* directories make a namespace package when nothing else is found
FindSpec(files, dirs, tail) ==
    LET Pkg(d)  == FileExists(files, d \o "/" \o tail \o "/__init__.py")
        Mod(d)  == FileExists(files, d \o "/" \o tail \o ".py")
        Hit(i)  == Pkg(dirs[i]) \/ Mod(dirs[i])
        Portion(d) == DirExists(files, d \o "/" \o tail)
        portions == SelectSeq(dirs, Portion)
    IN  IF \E i \in DOMAIN dirs : Hit(i)
        THEN LET i == CHOOSE k \in DOMAIN dirs : Hit(k) /\ \A j \in 1..(k - 1) : ~Hit(j)
                 d == dirs[i]
             IN  IF Pkg(d)
                 THEN [kind |-> "package", file |-> d \o "/" \o tail \o "/__init__.py",
                       pkgdirs |-> <<d \o "/" \o tail>>]
                 ELSE [kind |-> "module", file |-> d \o "/" \o tail \o ".py",
                       pkgdirs |-> <<>>]
        ELSE IF portions # <<>>
        THEN [kind |-> "namespace", file |-> "",
              pkgdirs |-> [i \in DOMAIN portions |-> portions[i] \o "/" \o tail]]
        ELSE [kind |-> "none", file |-> "", pkgdirs |-> <<>>]

Imported(name, mods) == [outcome |-> "ok", module |-> name, mods |-> mods, ran |-> <<>>]

\* what the import system does with the spec found for `name`: a namespace
\* package is registered as it is, a file is registered and its top level run;
\* a module whose top level raises is dropped from sys.modules again
LoadSpec(files, name, spec, up) ==
    IF spec.kind = "none" THEN [up EXCEPT !.outcome = "ImportError"]
    ELSE IF spec.kind = "namespace" \/ FileAt(files, spec.file).onImport = "ok"
    THEN [outcome |-> "ok", module |-> name,
          mods |-> (name :> [file |-> spec.file, pkgdirs |-> spec.pkgdirs, made |-> 1])
                       @@ up.mods,
          ran |-> IF spec.kind = "namespace" THEN up.ran ELSE Append(up.ran, spec.file)]
    ELSE [outcome |-> FileAt(files, spec.file).onImport, module |-> name,
          mods |-> up.mods, ran |-> Append(up.ran, spec.file)]

ParentOf(parts) == Join(SubSeq(parts, 1, Len(parts) - 1), ".")

\* the import of `name` once its parent has been imported with result `up`:
\* the parent must be a package, and its __path__ is searched for the last part
FindAndLoad(files, path, name, parts, up) ==
    IF up.outcome # "ok" THEN up
    ELSE IF Len(parts) = 1
    THEN LoadSpec(files, name, FindSpec(files, path, parts[1]), up)
    ELSE IF up.mods[ParentOf(parts)].pkgdirs = <<>>
    THEN [up EXCEPT !.outcome = "ImportError"]
    ELSE LoadSpec(files, name,
                  FindSpec(files, up.mods[ParentOf(parts)].pkgdirs, parts[Len(parts)]), up)

\* importlib.import_module(name) for an absolute dotted name: the parent
\* packages are imported first, outermost first
RECURSIVE ImportModule(_, _, _, _)
ImportModule(files, path, mods, name) ==
    IF name \in DOMAIN mods THEN Imported(name, mods)
    ELSE FindAndLoad(files, path, name, SplitOn(name, "."),
                     IF Len(SplitOn(name, ".")) = 1 THEN Imported("", mods)
                     ELSE ImportModule(files, path, mods, ParentOf(SplitOn(name, "."))))

ModuleNamespace == "_adaptive_discovery"

\* sha1(str(file_path)).hexdigest()[:8], kept symbolic
UniqueSuffix(file_path) == "sha1:" \o file_path

\* which module object an entry of `name` made now holds: module_from_spec
\* makes a new object at every call, the first, second, ... under that name
MadeNext(mods, name) == IF name \in DOMAIN mods THEN mods[name].made + 1 ELSE 1

\* DiscoveryResult._load_module_from_path, after the import `std` by name failed
LoadModuleFromPath(files, std, r, module_name) ==
    LET fallback_name == ModuleNamespace \o "." \o
                         (IF module_name # "" THEN module_name
                          ELSE UniqueSuffix(r.file_path))
    IN  [outcome |-> IF FileAt(files, r.file_path).onImport = "ok" THEN "ok"
                     ELSE "DiscoveryError",
         module  |-> fallback_name,
         mods    |-> (fallback_name :> [file |-> r.file_path, pkgdirs |-> <<>>,
                                        made |-> MadeNext(std.mods, fallback_name)])
                         @@ std.mods,
         ran     |-> Append(std.ran, r.file_path)]

\* DiscoveryResult._fallback_module_name
FallbackModuleName(r) ==
    LET rel    == SubSeq(r.file_path, Len(r.root) + 2, Len(r.file_path))
        parts  == SplitOn(rel, "/")
        dotted == Join([parts EXCEPT ![Len(parts)] = Stem(parts[Len(parts)])], ".")
    IN  IF dotted # "" THEN dotted ELSE Stem(r.file_path)

\* line 100: self.module or self._fallback_module_name()
ModuleName(r) == IF r.module # "" THEN r.module ELSE FallbackModuleName(r)

\* list.remove(x): drops the first occurrence
RemoveFirst(seq, x) ==
    LET i == CHOOSE k \in DOMAIN seq : seq[k] = x /\ \A j \in 1..(k - 1) : seq[j] # x
    IN  SubSeq(seq, 1, i - 1) \o SubSeq(seq, i + 1, Len(seq))

\* an attribute of a module object: the file that defined it, its name, and
\* the module object it was read from
NoObject == [file |-> "", name |-> "", module |-> "", made |-> 0]

\* lines 105-110: the module imported by name, or by path on ImportError
ImportOrFallback(files, r, module_name, std) ==
    IF std.outcome = "ImportError" THEN LoadModuleFromPath(files, std, r, module_name)
    ELSE std

\* lines 116-120: getattr(module, self.name), once the import ended as `got`
\* and sys.path has been put back as `path`
GetAttr(files, r, got, path) ==
    IF got.outcome # "ok"
    THEN [kind |-> got.outcome, obj |-> NoObject, mods |-> got.mods, path |-> path,
          ran |-> got.ran]
    ELSE IF r.name \in NamesOf(files, got.mods[got.module].file)
    THEN [kind |-> "ok",
          obj |-> [file |-> got.mods[got.module].file, name |-> r.name,
                   module |-> got.module, made |-> got.mods[got.module].made],
          mods |-> got.mods, path |-> path, ran |-> got.ran]
    ELSE [kind |-> "DiscoveryError", obj |-> NoObject, mods |-> got.mods, path |-> path,
          ran |-> got.ran]

\* a load that takes root off sys.path again only when the import succeeded
LoadResultNoFinally(files, path, mods, r) ==
    LET got == ImportOrFallback(files, r, ModuleName(r),
                   ImportModule(files,
                                IF r.root \notin Range(path) THEN <<r.root>> \o path
                                ELSE path,
                                mods, ModuleName(r)))
    IN  GetAttr(files, r, got,
                IF r.root \notin Range(path) /\ got.outcome # "ok"
                THEN <<r.root>> \o path ELSE path)

(* DiscoveryResult.load: [kind, obj, mods, path, ran].  kind is "ok",       *)
(* "DiscoveryError", or the kind of exception that escapes load unwrapped. *)
(* root is put first on sys.path for the import when it is not on it, and  *)
(* taken off again afterwards.                                             *)
LoadResult(files, path, mods, r) ==
    GetAttr(files, r,
            ImportOrFallback(files, r, ModuleName(r),
                ImportModule(files,
                             IF r.root \notin Range(path) THEN <<r.root>> \o path ELSE path,
                             mods, ModuleName(r))),
            IF r.root \notin Range(path) THEN RemoveFirst(<<r.root>> \o path, r.root)
            ELSE path)

-----------------------------------------------------------------------------
(* Engine operations.  ret is [op, kind, value, obj, ran]: the operation,  *)
(* how it ended ("ok", "NotFound" and "LoadError" are the two faces of     *)
(* DiscoveryError), the DiscoveryResults returned, the object returned by  *)
(* a load, and the files whose top level the call executed.                *)

NoSignature == NamedSignature("", <<>>)

Idle == [op |-> "none", kind |-> "ok", value |-> <<>>, obj |-> NoObject, ran |-> <<>>]

MaxExecutions == 3

\* the effect of result.load() by operation op
Loading(op, r) ==
    \E l \in {LoadResult(tree, sysPath, sysModules, r)} :
        /\ Len(executed) + Len(l.ran) <= MaxExecutions
        /\ ret' = [op |-> op,
                   kind |-> IF l.kind = "DiscoveryError" THEN "LoadError" ELSE l.kind,
                   value |-> <<r>>, obj |-> l.obj, ran |-> l.ran]
        /\ executed' = executed \o l.ran
        /\ sysPath' = l.path
        /\ sysModules' = l.mods

\* a discover that imports the winner whatever `load` says
DiscoverImporting(s, load) ==
    \E best \in {BestMatch(Root, tree, ignore, s)} :
        /\ sig' = s
        /\ UNCHANGED <<tree, ignore, held, threads>>
        /\ IF best = <<>>
           THEN /\ ret' = [Idle EXCEPT !.op = IF load THEN "discover_load" ELSE "discover",
                                       !.kind = "NotFound"]
                /\ UNCHANGED <<executed, sysPath, sysModules>>
           ELSE Loading(IF load THEN "discover_load" ELSE "discover", best[1])

\* a discover that passes over the files already imported into the process
DiscoverSkippingLoaded(s, load) ==
    LET NotLoaded(f) == AbsPath(Root, f.path) \notin Range(executed)
        best  == BestMatch(Root, SelectSeq(tree, NotLoaded), ignore, s)
        error == MatchError(tree, ignore)
    IN  /\ sig' = s
        /\ UNCHANGED <<tree, ignore, threads>>
        /\ IF error # "none"
           THEN /\ ret' = [Idle EXCEPT !.op = IF load THEN "discover_load" ELSE "discover",
                                       !.kind = error]
                /\ UNCHANGED <<held, executed, sysPath, sysModules>>
           ELSE IF best = <<>>
           THEN /\ ret' = [Idle EXCEPT !.op = IF load THEN "discover_load" ELSE "discover",
                                       !.kind = "NotFound"]
                /\ UNCHANGED <<held, executed, sysPath, sysModules>>
           ELSE IF load
           THEN Loading("discover_load", best[1]) /\ UNCHANGED held
           ELSE /\ ret' = [Idle EXCEPT !.op = "discover", !.value = best]
                /\ held' = [result |-> best, signature |-> s]
                /\ UNCHANGED <<executed, sysPath, sysModules>>

\* DiscoveryEngine.discover(signature, load=load)
Discover(s, load) ==
    \E best \in {BestMatch(Root, tree, ignore, s)}, error \in {MatchError(tree, ignore)} :
        /\ sig' = s
        /\ UNCHANGED <<tree, ignore, threads>>
        /\ IF error # "none"
           THEN /\ ret' = [Idle EXCEPT !.op = IF load THEN "discover_load" ELSE "discover",
                                       !.kind = error]
                /\ UNCHANGED <<held, executed, sysPath, sysModules>>
           ELSE IF best = <<>>
           THEN /\ ret' = [Idle EXCEPT !.op = IF load THEN "discover_load" ELSE "discover",
                                       !.kind = "NotFound"]
                /\ UNCHANGED <<held, executed, sysPath, sysModules>>
           ELSE IF load
           THEN Loading("discover_load", best[1]) /\ UNCHANGED held
           ELSE /\ ret' = [Idle EXCEPT !.op = "discover", !.value = best]
                /\ held' = [result |-> best, signature |-> s]
                /\ UNCHANGED <<executed, sysPath, sysModules>>

\* DiscoveryEngine.discover_all(signature)
DiscoverAll(s) ==
    \E results \in {DiscoverAllResults(Root, tree, ignore, s)},
       error \in {MatchError(tree, ignore)} :
        /\ sig' = s
        /\ ret' = IF error # "none"
                  THEN [Idle EXCEPT !.op = "discover_all", !.kind = error]
                  ELSE [Idle EXCEPT !.op = "discover_all",
                                    !.kind = IF results = <<>> THEN "NotFound" ELSE "ok",
                                    !.value = results]
        /\ UNCHANGED <<tree, ignore, held, executed, sysPath, sysModules, threads>>

\* result.load() on the winner the caller holds
LoadHeld ==
    /\ held.result # <<>>
    /\ Loading("load", held.result[1])
    /\ UNCHANGED <<tree, ignore, sig, held, threads>>

NothingHeld == [result |-> <<>>, signature |-> NoSignature]

\* no load() is running as a thread
NoThreads == [serialized |-> TRUE, before |-> <<>>, of |-> <<>>]

InitScore ==
    /\ \E input \in ScoreInputs : tree = input[1] /\ sig = input[2]
    /\ ignore = <<>>
    /\ ret = Idle
    /\ held = NothingHeld
    /\ executed = <<>>
    /\ sysPath = <<>>
    /\ sysModules = <<>>
    /\ threads = NoThreads

\* one call per behaviour, on the signature drawn
NextScore ==
    \/ ret.op = "none" /\ DiscoverAll(sig)
    \/ ret.op = "none" /\ Discover(sig, FALSE)

SpecScore == InitScore /\ [][NextScore]_vars

-----------------------------------------------------------------------------
(* The engine on whole projects: any sequence of discover, discover_all and *)
(* load calls on a tree of up to MaxFiles files.                            *)

MaxFiles == 3

\* a top-level statement that defines no symbol (an import, an expression)
Statement(kind, lineno) ==
    [kind |-> kind, name |-> "", lineno |-> lineno, methods |-> <<>>,
     decorator_list |-> <<>>, bases |-> <<>>, docstring |-> ""]

\* a file whose top level has an effect one can observe after the fact
WithSideEffect(path, body) ==
    SourceFile(path, <<Statement("ImportFrom", 1), Statement("Expr", 2)>> \o body)

\* tests/test_discovery.py, test_discover_avoids_module_execution: services.py
ServicesFile(path) ==
    SourceFile(path,
        <<ClassDef("TodoService", 1, <<"add", "complete", "list">>, <<>>, <<>>,
                   "Adaptive-aware todo service.")>>)

\* the files a project may hold, in an order os.walk can produce: the files of
\* the root, then those of its sub-directories
ProjectFiles ==
    <<WithSideEffect("side_effect.py", <<ClassDef("NotTarget", 4, <<>>, <<>>, <<>>, "")>>),
      ServicesFile("services.py"),
      RankingFixture[1],
      WithSideEffect("services/__init__.py", <<>>),
      SourceFile("services/todo.py",
          <<ClassDef("TodoService", 1, <<"add", "complete">>, <<>>, <<>>, "")>>),
      ServicesFile("legacy/services.py")>>

\* the files of the pool at the positions in `chosen`, in pool order
Pick(chosen) ==
    LET positions == [i \in DOMAIN ProjectFiles |-> i]
        Chosen(i) == i \in chosen
        kept      == SelectSeq(positions, Chosen)
    IN  [k \in DOMAIN kept |-> ProjectFiles[kept[k]]]

ProjectTrees ==
    {Pick(chosen) : chosen \in {some \in SUBSET DOMAIN ProjectFiles :
                                    Cardinality(some) <= MaxFiles}}

ServiceSignature == NamedSignature("TodoService", <<"add", "complete", "list">>)

EngineSignatures ==
    {ServiceSignature,
     NamedSignature("NotTarget", <<>>),
     NamedSignature("Missing", <<>>),
     Signature("TodoService", "class", <<>>, "services.todo", "", <<>>, <<>>, <<>>,
               FALSE, TRUE)}

StdLib == "/usr/lib/python3"

Init ==
    /\ tree \in ProjectTrees
    /\ ignore = <<>>
    /\ sig = NoSignature
    /\ ret = Idle
    /\ held = NothingHeld
    /\ executed = <<>>
    /\ sysPath \in {<<StdLib>>, <<Root, StdLib>>}
    /\ sysModules = <<>>
    /\ threads = NoThreads

Next ==
    \/ \E s \in EngineSignatures : Discover(s, FALSE)
    \/ \E s \in EngineSignatures : Discover(s, TRUE)
    \/ \E s \in EngineSignatures : DiscoverAll(s)
    \/ LoadHeld

Spec == Init /\ [][Next]_vars

-----------------------------------------------------------------------------
(* Loading on projects whose files may fail at import time: a top level    *)
(* that raises ("Error": any exception that is no ImportError), one that   *)
(* imports a module that does not exist ("ImportError"), and a package     *)
(* that hides the module file of the same name.                            *)

\* a file whose top level defines `body` and then raises `exc`
Raising(path, body, exc) == [SourceFile(path, body) EXCEPT !.onImport = exc]

LoadFiles ==
    <<ServicesFile("services.py"),
      Raising("broken.py", ServicesFile("broken.py").body, "Error"),
      Raising("needs_dep.py", ServicesFile("needs_dep.py").body, "ImportError"),
      WithSideEffect("services/__init__.py", <<>>),
      ServicesFile("services/todo.py")>>

\* the files of LoadFiles at the positions in `chosen`, in pool order
PickLoad(chosen) ==
    LET positions == [i \in DOMAIN LoadFiles |-> i]
        Chosen(i) == i \in chosen
        kept      == SelectSeq(positions, Chosen)
    IN  [k \in DOMAIN kept |-> LoadFiles[kept[k]]]

LoadTrees ==
    {PickLoad(chosen) : chosen \in {some \in SUBSET DOMAIN LoadFiles :
                                        Cardinality(some) <= MaxFiles}}

\* TodoService in a given module
InModule(module) ==
    Signature("TodoService", "class", <<>>, module, "", <<>>, <<>>, <<>>, FALSE, TRUE)

LoadSignatures ==
    {InModule(m) : m \in {"services", "broken", "needs_dep", "services.todo"}}

InitLoad ==
    /\ tree \in LoadTrees
    /\ ignore = <<>>
    /\ sig = NoSignature
    /\ ret = Idle
    /\ held = NothingHeld
    /\ executed = <<>>
    /\ sysPath \in {<<StdLib>>, <<Root, StdLib>>}
    /\ sysModules = <<>>
    /\ threads = NoThreads

NextLoad ==
    \/ \E s \in LoadSignatures : Discover(s, FALSE)
    \/ \E s \in LoadSignatures : Discover(s, TRUE)
    \/ LoadHeld

SpecLoad == InitLoad /\ [][NextLoad]_vars

-----------------------------------------------------------------------------
(* Walking: one call on a tree that holds test files, ignored and hidden   *)
(* directories, packages and files that cannot be read, decoded or parsed, *)
(* by an engine constructed with ignore patterns.                          *)

\* a file that cannot be read, decoded or parsed
Unusable(path, how) == [SourceFile(path, <<>>) EXCEPT !.content = how]

\* in an order os.walk can produce: a directory's files, then its
\* sub-directories one after the other
WalkFiles ==
    <<ServicesFile("services.py"),
      ServicesFile("test_services.py"),
      ServicesFile("services_test.py"),
      ServicesFile("legacy_utils.py"),
      Unusable("garbled.py", "undecodable"),
      Unusable("locked.py", "unreadable"),
      Unusable("syntax.py", "syntax_error"),
      ServicesFile("pkg/__init__.py"),
      ServicesFile("pkg/test_api.py"),
      ServicesFile("pkg/sub/__init__.py"),
      ServicesFile("pkg/build/gen.py"),
      ServicesFile("pkg/.cache/c.py"),
      ServicesFile("node_modules/lib.py"),
      ServicesFile("legacy/services.py"),
      ServicesFile("services/todo.py")>>

\* the files of WalkFiles at the positions in `chosen`, in pool order
PickWalk(chosen) ==
    LET positions == [i \in DOMAIN WalkFiles |-> i]
        Chosen(i) == i \in chosen
        kept      == SelectSeq(positions, Chosen)
    IN  [k \in DOMAIN kept |-> WalkFiles[kept[k]]]

WalkTrees ==
    {PickWalk(chosen) : chosen \in {some \in SUBSET DOMAIN WalkFiles :
                                        Cardinality(some) <= MaxFiles}}

\* Path(pattern).as_posix() for a relative pattern: empty and "." parts are
\* dropped, and so is a trailing "/"; nothing left reads "."
PathAsPosix(pattern) ==
    LET Kept(part) == part \notin {"", "."}
        parts == SelectSeq(SplitOn(pattern, "/"), Kept)
    IN  IF parts = <<>> THEN "." ELSE Join(parts, "/")

\* DiscoveryEngine.__init__: self.ignore
IgnoreOf(patterns) == [i \in DOMAIN patterns |-> PathAsPosix(patterns[i])]

\* the ignore argument of the constructor
WalkIgnores == {<<>>, <<"legacy">>, <<"legacy/">>, <<"./pkg/sub", "services/todo">>}

WalkSignatures == {ServiceSignature, InModule("pkg.sub"), InModule("pkg")}

InitWalk ==
    /\ tree \in WalkTrees
    /\ ignore \in {IgnoreOf(patterns) : patterns \in WalkIgnores}
    /\ sig \in WalkSignatures
    /\ ret = Idle
    /\ held = NothingHeld
    /\ executed = <<>>
    /\ sysPath = <<StdLib>>
    /\ sysModules = <<>>
    /\ threads = NoThreads

\* one call per behaviour, on the signature drawn
NextWalk ==
    \/ ret.op = "none" /\ DiscoverAll(sig)
    \/ ret.op = "none" /\ Discover(sig, FALSE)

SpecWalk == InitWalk /\ [][NextWalk]_vars

-----------------------------------------------------------------------------
(* Signature fields: one call on a one-class tree whose decorators and     *)
(* bases are names, attributes or calls, with signatures whose sequence    *)
(* fields may repeat an element.                                           *)

FieldDecorators ==
    {<<>>,
     <<NameExpr("dataclass")>>,
     <<CallExpr(NameExpr("dataclass"), "frozen=True")>>,
     <<CallExpr(NameExpr("repeat"), "3")>>,
     <<CallExpr(AttributeExpr(NameExpr("functools"), "lru_cache"), "maxsize=None")>>}

FieldBases == {<<>>, <<NameExpr("Base")>>, <<CallExpr(NameExpr("make_base"), "")>>}

FieldTrees ==
    {<<SourceFile("services.py", <<ClassDef("TodoService", 1, m, d, b, doc)>>)>> :
        m \in {<<"add">>, <<"add", "complete">>, FullMethods},
        d \in FieldDecorators, b \in FieldBases, doc \in DenseDocstrings}

\* the tuples __post_init__ freezes: what the caller passed, element by element
FieldSignatures ==
    {Signature("TodoService", "class", m, "", "", d, b, frag, FALSE, TRUE) :
        m \in {<<>>, <<"add", "remove">>, <<"add", "add", "remove">>,
               <<"add", "remove", "remove">>, FullMethods},
        d \in {<<>>, <<"dataclass">>, <<"dataclass", "dataclass">>, <<"repeat">>,
               <<"functools.lru_cache">>},
        b \in {<<>>, <<"Base">>, <<"Base", "Base">>, <<"make_base">>},
        frag \in {<<>>, <<"adaptive">>, <<"adaptive", "adaptive">>}}

InitFields ==
    /\ tree \in FieldTrees
    /\ sig \in FieldSignatures
    /\ ignore = <<>>
    /\ ret = Idle
    /\ held = NothingHeld
    /\ executed = <<>>
    /\ sysPath = <<>>
    /\ sysModules = <<>>
    /\ threads = NoThreads

SpecFields == InitFields /\ [][NextScore]_vars

-----------------------------------------------------------------------------
(* Two engines in one process: one rooted at Root and one rooted at the    *)
(* directory legacy below it, whose files repeat the names of the first.   *)
(* The results of both are loaded into the same sys.modules.               *)

OtherDir == "legacy"

\* the files below directory `dir`, with their paths relative to it
Beneath(files, dir) ==
    LET Inside(f) == StartsWith(f.path, dir \o "/")
        inside    == SelectSeq(files, Inside)
    IN  [i \in DOMAIN inside |->
            [inside[i] EXCEPT !.path = SubSeq(@, Len(dir) + 2, Len(@))]]

\* DiscoveryEngine(root=Root/dir).discover(s, load=False), the caller keeping
\* the result
DiscoverIn(dir, s) ==
    \E best \in {BestMatch(AbsPath(Root, dir), Beneath(tree, dir), ignore, s)},
       error \in {MatchError(Beneath(tree, dir), ignore)} :
        /\ sig' = s
        /\ UNCHANGED <<tree, ignore, executed, sysPath, sysModules, threads>>
        /\ IF error # "none"
           THEN ret' = [Idle EXCEPT !.op = "discover", !.kind = error] /\ UNCHANGED held
           ELSE IF best = <<>>
           THEN ret' = [Idle EXCEPT !.op = "discover", !.kind = "NotFound"] /\ UNCHANGED held
           ELSE /\ ret' = [Idle EXCEPT !.op = "discover", !.value = best]
                /\ held' = [result |-> best, signature |-> s]

\* in an order os.walk can produce; services.py hides the directory services
\* from the import system, needs_dep.py imports a module that does not exist
RootsFiles ==
    <<ServicesFile("__init__.py"),
      ServicesFile("services.py"),
      Raising("needs_dep.py", ServicesFile("needs_dep.py").body, "ImportError"),
      ServicesFile("services/todo.py"),
      ServicesFile("legacy/services.py"),
      Raising("legacy/needs_dep.py", ServicesFile("needs_dep.py").body, "ImportError"),
      ServicesFile("legacy/services/todo.py")>>

PickRoots(chosen) ==
    LET positions == [i \in DOMAIN RootsFiles |-> i]
        Chosen(i) == i \in chosen
        kept      == SelectSeq(positions, Chosen)
    IN  [k \in DOMAIN kept |-> RootsFiles[kept[k]]]

RootsTrees ==
    {PickRoots(chosen) : chosen \in {some \in SUBSET DOMAIN RootsFiles :
                                         Cardinality(some) <= MaxFiles}}

RootsSignatures ==
    {NamedSignature("TodoService", <<>>)}
        \cup {InModule(m) : m \in {"services", "services.todo", "needs_dep"}}

InitRoots ==
    /\ tree \in RootsTrees
    /\ ignore = <<>>
    /\ sig = NoSignature
    /\ ret = Idle
    /\ held = NothingHeld
    /\ executed = <<>>
    /\ sysPath = <<StdLib>>
    /\ sysModules = <<>>
    /\ threads = NoThreads

NextRoots ==
    \/ \E s \in RootsSignatures : Discover(s, FALSE)
    \/ \E s \in RootsSignatures : DiscoverIn(OtherDir, s)
    \/ LoadHeld

SpecRoots == InitRoots /\ [][NextRoots]_vars

-----------------------------------------------------------------------------
(* Two load() calls as threads of one process.  Each call goes through the *)
(* steps of DiscoveryResult.load one at a time: the test of sys.path, the  *)
(* insert, the import (by name, then by path), and the finally block with  *)
(* the getattr that ends the call.  A thread switch can fall between any   *)
(* two steps; the import is taken as one step.  When the callers serialize *)
(* their loads, a call starts only when no other call is under way.        *)

Threads == {"first", "second"}

NoImport == [outcome |-> "none", module |-> "", entry |-> <<>>]

\* a thread about to call r.load()
Calling(r) ==
    [pc |-> "check", r |-> r, cleanup_path |-> FALSE, got |-> NoImport,
     kind |-> "none", obj |-> NoObject]

\* thread t may take its next step
Turn(t) ==
    \/ ~threads.serialized
    \/ \A u \in Threads \ {t} : threads.of[u].pc \in {"check", "done"}

\* lines 101-103: `if root_str not in sys.path`
LoadCheck(t) ==
    /\ threads.of[t].pc = "check"
    /\ Turn(t)
    /\ threads' = [threads EXCEPT !.of[t].pc =
                       IF threads.of[t].r.root \notin Range(sysPath) THEN "insert"
                       ELSE "import"]
    /\ UNCHANGED <<tree, ignore, sig, ret, held, executed, sysPath, sysModules>>

\* a prepend step that notes the cleanup and leaves sys.path alone
LoadPrependForgetting(t) ==
    /\ threads.of[t].pc = "insert"
    /\ threads' = [threads EXCEPT !.of[t].pc = "import", !.of[t].cleanup_path = TRUE]
    /\ UNCHANGED <<tree, ignore, sig, ret, held, executed, sysPath, sysModules>>

\* lines 102-103: sys.path.insert(0, root_str); cleanup_path = True
LoadPrepend(t) ==
    /\ threads.of[t].pc = "insert"
    /\ sysPath' = <<threads.of[t].r.root>> \o sysPath
    /\ threads' = [threads EXCEPT !.of[t].pc = "import", !.of[t].cleanup_path = TRUE]
    /\ UNCHANGED <<tree, ignore, sig, ret, held, executed, sysModules>>

\* lines 105-109: import_module(module_name), _load_module_from_path on
\* ImportError, with sys.path as it is at this moment
LoadImport(t) ==
    \E got \in {ImportOrFallback(tree, threads.of[t].r, ModuleName(threads.of[t].r),
                    ImportModule(tree, sysPath, sysModules, ModuleName(threads.of[t].r)))} :
        /\ threads.of[t].pc = "import"
        /\ Len(executed) + Len(got.ran) <= MaxExecutions
        /\ executed' = executed \o got.ran
        /\ sysModules' = got.mods
        /\ threads' = [threads EXCEPT
               !.of[t].pc = "finally",
               !.of[t].got = [outcome |-> got.outcome, module |-> got.module,
                              entry |-> IF got.outcome = "ok" THEN <<got.mods[got.module]>>
                                        ELSE <<>>]]
        /\ UNCHANGED <<tree, ignore, sig, ret, held, sysPath>>

\* the module a thread holds, as the one-entry registry GetAttr reads it from
Holding(got, path) ==
    [outcome |-> got.outcome, module |-> got.module, ran |-> <<>>,
     mods |-> IF got.entry = <<>> THEN <<>> ELSE got.module :> got.entry[1]]

\* a finally block that removes root whether or not this call inserted it
LoadRemoveAlways(t) ==
    \E path \in {IF threads.of[t].r.root \in Range(sysPath)
                 THEN RemoveFirst(sysPath, threads.of[t].r.root) ELSE sysPath} :
        \E l \in {GetAttr(tree, threads.of[t].r, Holding(threads.of[t].got, path), path)} :
            /\ threads.of[t].pc = "finally"
            /\ sysPath' = path
            /\ threads' = [threads EXCEPT !.of[t].pc = "done", !.of[t].kind = l.kind,
                                          !.of[t].obj = l.obj]
            /\ UNCHANGED <<tree, ignore, sig, ret, held, executed, sysModules>>

\* lines 110-120: the finally block (sys.path.remove(root_str) when this call
\* inserted it, ValueError passed over), then getattr, which ends the call
LoadRemove(t) ==
    \E path \in {IF threads.of[t].cleanup_path /\ threads.of[t].r.root \in Range(sysPath)
                 THEN RemoveFirst(sysPath, threads.of[t].r.root) ELSE sysPath} :
        \E l \in {GetAttr(tree, threads.of[t].r, Holding(threads.of[t].got, path), path)} :
            /\ threads.of[t].pc = "finally"
            /\ sysPath' = path
            /\ threads' = [threads EXCEPT !.of[t].pc = "done", !.of[t].kind = l.kind,
                                          !.of[t].obj = l.obj]
            /\ UNCHANGED <<tree, ignore, sig, ret, held, executed, sysModules>>

\* the results the callers hold: any result of the engine on the tree
ThreadResults(files) ==
    Range(DiscoverAllResults(Root, files, <<>>, NamedSignature("TodoService", <<>>)))

InitThreads ==
    /\ tree \in LoadTrees
    /\ ignore = <<>>
    /\ sig = NoSignature
    /\ ret = Idle
    /\ held = NothingHeld
    /\ executed = <<>>
    /\ sysPath \in {<<StdLib>>, <<Root, StdLib>>}
    /\ sysModules = <<>>
    /\ \E serialized \in BOOLEAN :
           \E calls \in [Threads -> {Calling(r) : r \in ThreadResults(tree)}] :
               threads = [serialized |-> serialized, before |-> sysPath, of |-> calls]

NextThreads ==
    \/ \E t \in Threads : LoadCheck(t)
    \/ \E t \in Threads : LoadPrepend(t)
    \/ \E t \in Threads : LoadImport(t)
    \/ \E t \in Threads : LoadRemove(t)

SpecThreads == InitThreads /\ [][NextThreads]_vars

-----------------------------------------------------------------------------
(* What a call shows of one candidate *)

\* the candidates the extractor finds in the current tree
TreeCandidates == AllCandidates(Root, tree, ignore)

SameSymbol(r, c) ==
    r.file_path = c.file_path /\ r.lineno = c.lineno /\ r.name = c.name

\* the score discover_all reported for candidate c; 0 when c is not in the result
Observed(c) ==
    IF \E i \in DOMAIN ret.value : SameSymbol(ret.value[i], c)
    THEN ret.value[CHOOSE i \in DOMAIN ret.value : SameSymbol(ret.value[i], c)].score
    ELSE 0

\* file `abs` has a top-level symbol that signature s matches
HasMatch(abs, s) ==
    \E i \in DOMAIN TreeCandidates :
        TreeCandidates[i].file_path = abs /\ ScoreCandidate(TreeCandidates[i], s) > 0

SomeCandidateScores ==
    \E i \in DOMAIN TreeCandidates : ScoreCandidate(TreeCandidates[i], sig) > 0

\* C1: discover(S, load=False) and discover_all(S) execute no project file and
\* leave sys.path and sys.modules as they were, whatever the signature and the
\* tree; the import-time side effect of a file is absent after the call.
C1_NoExecution ==
    [][ret'.op \in {"discover", "discover_all"} =>
           /\ executed' = executed
           /\ sysModules' = sysModules
           /\ sysPath' = sysPath
           /\ ret'.ran = <<>>]_vars

C1_Witness ==
    /\ ret.op = "discover"
    /\ ret.kind = "ok"
    /\ ret.value[1].file_path = AbsPath(Root, "services.py")
    /\ FileExists(tree, AbsPath(Root, "side_effect.py"))
    /\ executed = <<>>

\* C2 as stated: after discover(S, load=False) and load() on the winner, no
\* file without a top-level candidate matching S has been executed by the load,
\* which runs the winner's own file only.
C2_AsStated ==
    ret.op = "load" =>
        \A i \in DOMAIN ret.ran :
            /\ HasMatch(ret.ran[i], held.signature)
            /\ ret.ran[i] = held.result[1].file_path

\* C3: when some candidate scores above 0, every score discover_all returns is
\* above 0, the scores do not increase from first to last, and the first
\* element equals the result of discover(S, load=False) on every field.
C3_SortedAndFirstIsBest ==
    ret.op = "discover_all" /\ SomeCandidateScores =>
        /\ ret.kind = "ok"
        /\ ret.value # <<>>
        /\ \A i \in DOMAIN ret.value : ret.value[i].score > 0
        /\ \A i \in 1..(Len(ret.value) - 1) : ret.value[i].score >= ret.value[i + 1].score
        /\ BestMatch(Root, tree, ignore, sig) = <<ret.value[1]>>
        /\ held.signature = sig => held.result = <<ret.value[1]>>

C3_Witness ==
    /\ ret.op = "discover_all"
    /\ held.signature = sig
    /\ Len(ret.value) >= 2
    /\ ret.value[1].score = ret.value[2].score

\* C4: when no candidate scores above 0, discover with and without load and
\* discover_all all fail with NotFound and load nothing; discover_all never
\* returns an empty list and discover never returns a result of score 0.
C4_NotFound ==
    /\ ret.op \in {"discover", "discover_load", "discover_all"} /\ ~SomeCandidateScores =>
           /\ ret.kind = "NotFound"
           /\ ret.value = <<>>
           /\ ret.obj = NoObject
           /\ ret.ran = <<>>
    /\ ret.op = "discover_all" /\ ret.kind # "NotFound" => ret.value # <<>>
    /\ ret.op \in {"discover", "discover_load"} =>
           \A i \in DOMAIN ret.value : ret.value[i].score > 0

C4_Witness ==
    /\ ret.op = "discover_load"
    /\ ret.kind = "NotFound"
    /\ executed = <<>>
    /\ \E i \in DOMAIN TreeCandidates : NameScore(TreeCandidates[i].name, sig) > 0

Folded(str, s) == IF s.case_sensitive THEN str ELSE Lower(str)

\* the kind rule as the engine applies it: case-insensitive, "" read as class,
\* "*" as any
KindAccepted(requested, actual) ==
    LET req == Lower(IF requested = "" THEN "class" ELSE requested)
    IN  \/ req \in {"any", "*"}
        \/ req = "class" /\ actual = "class"
        \/ req = "function" /\ actual \in {"function", "async_function"}
        \/ req \notin {"any", "*", "class", "function"} /\ req = Lower(actual)

\* no name rule applies: the query is not even a substring / the regex has no hit
NameMatchFails(name, s) ==
    IF s.regex THEN ~ReSearch(s.name, name, ~s.case_sensitive)
    ELSE ~Contains(Folded(name, s), Folded(s.name, s))

\* how many entries of the required tuple the candidate has
Covered(required, have) ==
    Cardinality({i \in DOMAIN required : \E j \in DOMAIN have : have[j] = required[i]})

Disqualifier(c, s) ==
    \/ ~KindAccepted(s.type, c.type)
    \/ NameMatchFails(c.name, s)
    \/ 2 * Covered(s.methods, c.methods) < Len(s.methods)
    \/ ~(Range(s.decorators) \subseteq Range(c.decorators))
    \/ ~(Range(s.bases) \subseteq Range(c.bases))
    \/ s.module # "" /\ s.module # c.module
    \/ s.module = "" /\ s.module_pattern # "" /\ ~ReSearch(s.module_pattern, c.module, FALSE)

\* C5: a candidate scores 0 exactly when a disqualifier applies to it (kind
\* mismatch, no name match, under half of the required methods, a required
\* decorator or base missing, module different, module pattern without a hit),
\* and scores above 0 otherwise; no disqualified candidate is in a discover or
\* discover_all result.
C5_DisqualifiedIffZero ==
    /\ ret.op = "discover_all" =>
           \A i \in DOMAIN TreeCandidates :
               LET c == TreeCandidates[i]
               IN  /\ Disqualifier(c, sig) <=> Observed(c) = 0
                   /\ ~Disqualifier(c, sig) <=> Observed(c) > 0
    /\ ret.op \in {"discover", "discover_all"} =>
           \A i \in DOMAIN ret.value : ~Disqualifier(ret.value[i], sig)

C5_Witness ==
    /\ ret.op = "discover_all"
    /\ ret.kind = "NotFound"
    /\ \E i \in DOMAIN TreeCandidates :
           LET c == TreeCandidates[i]
           IN  /\ KindAccepted(sig.type, c.type)
               /\ ~NameMatchFails(c.name, sig)
               /\ sig.methods = <<>>
               /\ Range(sig.bases) \subseteq Range(c.bases)
               /\ sig.module = "" /\ sig.module_pattern = ""
               /\ ~(Range(sig.decorators) \subseteq Range(c.decorators))

WithoutMethods(s) == [s EXCEPT !.methods = <<>>]

\* C6: with n > 0 required methods of which the candidate has k, k < n/2 gives
\* score 0, k = n adds exactly 0.3 and n/2 <= k < n adds 0.2*k/n to the score
\* the candidate has without the method requirement; full coverage therefore
\* outranks every partial coverage of the same symbol, and the three-class
\* fixture yields exactly [TodoService, TodoServiceLegacy], scores decreasing.
C6_MethodCoverage ==
    ret.op = "discover_all" =>
        /\ \A i \in DOMAIN TreeCandidates :
               LET c    == TreeCandidates[i]
                   n    == Len(sig.methods)
                   k    == Covered(sig.methods, c.methods)
                   base == ScoreCandidate(c, WithoutMethods(sig))
               IN  n > 0 =>
                     /\ 2 * k < n => Observed(c) = 0
                     /\ base > 0 /\ k = n => Observed(c) = base + 30 * Hundredth
                     /\ base > 0 /\ 2 * k >= n /\ k < n =>
                            n * (Observed(c) - base) = 20 * Hundredth * k
                     /\ k = n /\ Observed(c) > 0 =>
                            \A m \in MethodTuples :
                                Covered(sig.methods, m) < n =>
                                    Observed(c) > ScoreCandidate([c EXCEPT !.methods = m], sig)
        /\ tree = RankingFixture /\ sig = RankingSignature =>
               /\ [i \in DOMAIN ret.value |-> ret.value[i].name]
                      = <<"TodoService", "TodoServiceLegacy">>
               /\ ret.value[1].score > ret.value[2].score

C6_Witness ==
    /\ ret.op = "discover_all"
    /\ tree = RankingFixture /\ sig = RankingSignature
    /\ Len(ret.value) = 2
    /\ 3 * (ret.value[2].score - 50 * Hundredth) = 20 * Hundredth * 2

\* the name rules, first match wins
RuleNameScore(name, s) ==
    LET cand   == Folded(name, s)
        target == Folded(s.name, s)
    IN  IF s.regex
        THEN (IF ReSearch(s.name, name, ~s.case_sensitive) THEN 60 ELSE 0)
        ELSE CASE cand = target -> 70
               [] cand # target /\ StartsWith(cand, target) -> 50
               [] ~StartsWith(cand, target) /\ EndsWith(cand, target) -> 40
               [] ~StartsWith(cand, target) /\ ~EndsWith(cand, target)
                      /\ Contains(cand, target) -> 30
               [] OTHER -> 0

\* what the other criteria add for a candidate that is not disqualified
OtherBonuses(c, s) ==
    MethodsBonus(c, s) + DecoratorsBonus(c, s) + BasesBonus(c, s)
        + DocstringBonus(c, s) + ModuleBonus(c, s) + FileStemBonus(c, s)

\* C7: the name score is 0.7 for an exact match, else 0.5 for a prefix match,
\* else 0.4 for a suffix match, else 0.3 for a substring match, else 0; for a
\* regex query 0.6 on a hit anywhere in the name, else 0.  Repo$ selects
\* UserRepo and AdminRepo and excludes RepoHelper.
C7_NameScore ==
    ret.op = "discover_all" =>
        /\ \A i \in DOMAIN TreeCandidates :
               LET c == TreeCandidates[i]
                   e == RuleNameScore(c.name, sig)
               IN  /\ e = 0 => Observed(c) = 0
                   /\ Observed(c) > 0 =>
                          Observed(c) = e * Hundredth + OtherBonuses(c, sig)
        /\ tree = RepoFixture /\ sig = RepoSignature =>
               /\ {ret.value[i].name : i \in DOMAIN ret.value} = {"UserRepo", "AdminRepo"}
               /\ \A i \in DOMAIN ret.value : ret.value[i].score = 60 * Hundredth

C7_Witness ==
    /\ ret.op = "discover_all"
    /\ ~sig.regex
    /\ \E i \in DOMAIN TreeCandidates :
           LET c == TreeCandidates[i]
           IN  /\ RuleNameScore(c.name, sig) = 40
               /\ Observed(c) = 40 * Hundredth

\* the strength of candidate c on each scoring criterion of signature s: name
\* match class, methods covered, decorators, bases, docstring fragments found,
\* module match, file-stem match
Strength(c, s) ==
    <<RuleNameScore(c.name, s),
      Covered(s.methods, c.methods),
      IF s.decorators # <<>> /\ Range(s.decorators) \subseteq Range(c.decorators)
          THEN 1 ELSE 0,
      IF s.bases # <<>> /\ Range(s.bases) \subseteq Range(c.bases) THEN 1 ELSE 0,
      Cardinality({i \in DOMAIN s.docstring_contains :
                      Contains(Lower(c.docstring), Lower(s.docstring_contains[i]))}),
      IF s.module # "" THEN (IF c.module = s.module THEN 1 ELSE 0)
      ELSE IF s.module_pattern # ""
           THEN (IF ReSearch(s.module_pattern, c.module, FALSE) THEN 1 ELSE 0)
           ELSE 0,
      IF Lower(Stem(c.file_path)) = Lower(s.name) THEN 1 ELSE 0>>

\* strength vector sa is strictly greater than sb on one criterion and equal on
\* all others
StrictlyStronger(sa, sb) ==
    \E i \in DOMAIN sa :
        /\ sa[i] > sb[i]
        /\ \A j \in DOMAIN sa \ {i} : sa[j] = sb[j]

\* the candidates of c's kind that differ from c in one extracted field
Variants(c) ==
    ({[c EXCEPT !.name = n] : n \in DenseNames}
     \cup {[c EXCEPT !.methods = m] : m \in MethodTuples}
     \cup {[c EXCEPT !.decorators = d] : d \in {<<>>, <<"dataclass">>}}
     \cup {[c EXCEPT !.bases = b] : b \in {<<>>, <<"Base">>}}
     \cup {[c EXCEPT !.docstring = d] : d \in DenseDocstrings}
     \cup {[c EXCEPT !.file_path = AbsPath(Root, q), !.module = ModuleNameFor(q)] :
              q \in {"services.py", "services/todo.py", "todoservice.py"}})
    \ {c}

\* C8 as stated: a candidate strictly stronger on one criterion and equal on all
\* others scores strictly higher.
C8_AsStated ==
    ret.op = "discover_all" =>
        \A i \in DOMAIN TreeCandidates :
            LET a  == TreeCandidates[i]
                sa == Strength(a, sig)
                oa == Observed(a)
            IN  \A b \in Variants(a) :
                    LET sb == Strength(b, sig)
                        ob == ScoreCandidate(b, sig)
                    IN  /\ StrictlyStronger(sa, sb) => oa > ob
                        /\ StrictlyStronger(sb, sa) => ob > oa

\* C8, amended: a candidate that is not disqualified and is strictly stronger on
\* one criterion and equal on all others scores strictly higher.
C8_StrongerScoresHigher ==
    ret.op = "discover_all" =>
        \A i \in DOMAIN TreeCandidates :
            LET a  == TreeCandidates[i]
                sa == Strength(a, sig)
                oa == Observed(a)
            IN  \A b \in Variants(a) :
                    LET sb == Strength(b, sig)
                        ob == ScoreCandidate(b, sig)
                    IN  /\ StrictlyStronger(sa, sb) /\ oa > 0 => oa > ob
                        /\ StrictlyStronger(sb, sa) /\ ob > 0 => ob > oa

C8_Witness ==
    /\ ret.op = "discover_all"
    /\ \E i \in DOMAIN TreeCandidates :
           LET a == TreeCandidates[i]
           IN  /\ Observed(a) > 0
               /\ \E b \in Variants(a) :
                      /\ StrictlyStronger(Strength(a, sig), Strength(b, sig))
                      /\ Strength(a, sig)[7] > Strength(b, sig)[7]
                      /\ ScoreCandidate(b, sig) > 0

\* the kind rule as C9 states it
KindRuleAsStated(requested, actual) ==
    CASE requested = "any" -> TRUE
      [] requested = "class" -> actual = "class"
      [] requested = "function" -> actual \in {"function", "async_function"}
      [] OTHER -> requested = actual

WithKind(s, kind) == [s EXCEPT !.type = kind]

\* C9 as stated: any matches every kind, class only class, function both
\* function and async_function, any other kind only the same string; a candidate
\* whose kind matches scores as it would with kind any, otherwise 0.
C9_AsStated ==
    ret.op = "discover_all" =>
        \A i \in DOMAIN TreeCandidates :
            LET c == TreeCandidates[i]
            IN  Observed(c) =
                    IF KindRuleAsStated(sig.type, c.type)
                    THEN ScoreCandidate(c, WithKind(sig, "any")) ELSE 0

\* C9, amended: the requested kind is compared case-insensitively, an empty
\* kind reads as class and * as any; any matches every kind, class only class,
\* function both function and async_function, any other kind only the candidate
\* kind of the same lower-cased string.  A candidate whose kind matches scores
\* as it would with kind any, otherwise 0 whatever its other fields.
C9_KindMatching ==
    ret.op = "discover_all" =>
        \A i \in DOMAIN TreeCandidates :
            LET c == TreeCandidates[i]
            IN  Observed(c) =
                    IF KindAccepted(sig.type, c.type)
                    THEN ScoreCandidate(c, WithKind(sig, "any")) ELSE 0

C9_Witness ==
    /\ ret.op = "discover_all"
    /\ sig.type = "*"
    /\ \E i \in DOMAIN TreeCandidates :
           TreeCandidates[i].type = "async_function" /\ Observed(TreeCandidates[i]) > 0

WithoutModule(s) == [s EXCEPT !.module = "", !.module_pattern = ""]

\* C10: with S.module set every result's module equals S.module, the bonus is
\* 0.1 and S.module_pattern changes nothing; with only S.module_pattern set
\* every result's module has a regex hit and the bonus is 0.05; never both.
C10_ModuleConstraints ==
    ret.op = "discover_all" =>
        /\ \A i \in DOMAIN ret.value :
               LET r    == ret.value[i]
                   base == ScoreCandidate(r, WithoutModule(sig))
               IN  /\ sig.module # "" =>
                          r.module = sig.module /\ r.score = base + 10 * Hundredth
                   /\ sig.module = "" /\ sig.module_pattern # "" =>
                          /\ ReSearch(sig.module_pattern, r.module, FALSE)
                          /\ r.score = base + 5 * Hundredth
                   /\ r.score - base \in {0, 5 * Hundredth, 10 * Hundredth}
        /\ sig.module # "" =>
               ret.value = DiscoverAllResults(Root, tree, ignore,
                                              [sig EXCEPT !.module_pattern = ""])
        /\ sig.module # "" /\ (\A i \in DOMAIN TreeCandidates :
                                   TreeCandidates[i].module # sig.module) =>
               ret.kind = "NotFound"

C10_Witness ==
    /\ ret.op = "discover_all"
    /\ ret.kind = "ok"
    /\ sig.module # "" /\ sig.module_pattern # ""
    /\ ReSearch(sig.module_pattern, ret.value[1].module, FALSE)

\* C11: on every exit of load(), successful or failing, sys.path is what it
\* was before the call, whether root was on it or had to be prepended; this
\* holds along any sequence of load calls.
C11_PathRestored ==
    [][ret'.op \in {"load", "discover_load"} => sysPath' = sysPath]_vars

C11_Witness ==
    /\ ret.op = "load"
    /\ ret.kind \in {"LoadError", "Error"}
    /\ ret.ran # <<>>
    /\ Root \notin Range(sysPath)
    /\ \E i \in DOMAIN executed : i > Len(ret.ran)

\* C12 as stated: a load after a successful selection returns the symbol or
\* raises LoadError; a top level that raises and a missing attribute both end
\* as LoadError, in the import by name and in the path fallback alike, and no
\* other exception escapes.
C12_AsStated ==
    ret.op \in {"load", "discover_load"} /\ ret.value # <<>> =>
        \/ ret.kind = "ok" /\ ret.obj.name = ret.value[1].name
        \/ ret.kind = "LoadError" /\ ret.obj = NoObject

\* the files of the tree that can be read, decoded and parsed
Usable(files) ==
    LET Good(f) == f.content = "ok"
    IN  SelectSeq(files, Good)

\* C13 as stated: whatever files of the tree cannot be read, decoded as UTF-8
\* or parsed, no exception of the extraction stage comes out of discover or
\* discover_all, those files contribute no candidate, and discover_all returns
\* what it returns on the tree of the other files.
C13_AsStated ==
    ret.op \in {"discover", "discover_all"} =>
        /\ ret.kind \in {"ok", "NotFound"}
        /\ ret.op = "discover_all" =>
               ret.value = DiscoverAllResults(Root, Usable(tree), ignore, sig)

\* the path of result r relative to root, in forward-slash form
RelativePath(r) == SubSeq(r.file_path, Len(Root) + 2, Len(r.file_path))

\* the root-relative paths of the files the walker yields on the current tree
WalkerYields ==
    LET walked == IterPythonFiles(tree, ignore)
    IN  {walked[i].path : i \in DOMAIN walked}

\* the root-relative paths of the files the results of the call come from
ResultPaths == {RelativePath(ret.value[i]) : i \in DOMAIN ret.value}

\* the names of the directories between root and the file at `rel`
Ancestors(rel) ==
    LET parts == SplitOn(rel, "/")
    IN  {parts[k] : k \in 1..(Len(parts) - 1)}

PrunedName(name) ==
    \/ name \in {"__pycache__", "node_modules", "build", "dist", "venv", ".venv", ".git"}
    \/ StartsWith(name, ".")

\* C14: no result of discover or discover_all, and no file the walker yields,
\* has an ancestor directory below root whose name is in the default ignore
\* set or begins with '.', at any depth.
C14_IgnoredDirectoriesPruned ==
    \A rel \in ResultPaths \cup WalkerYields :
        \A name \in Ancestors(rel) : ~PrunedName(name)

C14_Witness ==
    /\ ret.op = "discover_all"
    /\ ret.kind = "ok"
    /\ FileExists(tree, AbsPath(Root, "pkg/build/gen.py"))
    /\ FileExists(tree, AbsPath(Root, "pkg/.cache/c.py"))
    /\ ResultPaths = {"services.py"}

\* the last part of a root-relative path
FileName(rel) == SplitOn(rel, "/")[Len(SplitOn(rel, "/"))]

TestNamed(name) ==
    \/ StartsWith(name, "test_") /\ EndsWith(name, ".py")
    \/ EndsWith(name, "_test.py")

\* C15: no result of discover or discover_all comes from a file named
\* test_*.py or *_test.py, in whatever directory the file is and however well
\* its symbols match the signature.
C15_TestFilesSkipped ==
    \A rel \in ResultPaths \cup WalkerYields : ~TestNamed(FileName(rel))

C15_Witness ==
    /\ ret.op = "discover_all"
    /\ ret.kind = "ok"
    /\ sig = ServiceSignature
    /\ FileExists(tree, AbsPath(Root, "pkg/test_api.py"))
    /\ FileExists(tree, AbsPath(Root, "services_test.py"))
    /\ ResultPaths = {"services.py"}

\* `rel` starts with one of the prefixes
HasPrefix(rel, prefixes) == \E i \in DOMAIN prefixes : StartsWith(rel, prefixes[i])

\* `rel` is beneath a directory whose root-relative path starts with a prefix
BeneathPrefixed(rel, prefixes) ==
    LET parts == SplitOn(rel, "/")
    IN  \E k \in 1..(Len(parts) - 1) : HasPrefix(Join(SubSeq(parts, 1, k), "/"), prefixes)

\* a non-test source file outside default-ignored and dot directories
PlainSource(rel) ==
    /\ EndsWith(rel, ".py")
    /\ ~TestNamed(FileName(rel))
    /\ \A name \in Ancestors(rel) : ~PrunedName(name)

\* C16 as stated: for an engine constructed with the prefixes `patterns`, no
\* result and no walked file has a root-relative path that starts with one of
\* them or lies beneath a directory whose path does, and every other non-test
\* source file outside default-ignored and dot directories is walked.
C16_AsStated ==
    \A patterns \in WalkIgnores :
        ret.op \in {"discover", "discover_all"} /\ IgnoreOf(patterns) = ignore =>
            /\ \A rel \in ResultPaths \cup WalkerYields :
                   ~HasPrefix(rel, patterns) /\ ~BeneathPrefixed(rel, patterns)
            /\ \A i \in DOMAIN tree :
                   /\ PlainSource(tree[i].path)
                   /\ ~HasPrefix(tree[i].path, patterns)
                   /\ ~BeneathPrefixed(tree[i].path, patterns)
                   => tree[i].path \in WalkerYields

\* `text` with every "/" replaced by "."
RECURSIVE Dotted(_)
Dotted(text) ==
    IF text = "" THEN ""
    ELSE (IF CharAt(text, 1) = "/" THEN "." ELSE CharAt(text, 1))
             \o Dotted(SubSeq(text, 2, Len(text)))

\* the module name the rule gives the file at `rel`: extension dropped, parts
\* joined by ".", the init segment of a package-init file omitted
RuleModuleName(rel) ==
    LET dotted == Dotted(SubSeq(rel, 1, Len(rel) - 3))
    IN  IF dotted = "__init__" THEN ""
        ELSE IF EndsWith(dotted, ".__init__")
             THEN SubSeq(dotted, 1, Len(dotted) - Len(".__init__"))
             ELSE dotted

\* C17: the module of every candidate and of every result is its file's
\* root-relative path with the extension dropped and the parts joined by ".",
\* without the init segment for a package-init file: pkg/sub/__init__.py is
\* module pkg.sub and services/todo.py is module services.todo.
C17_ModuleNames ==
    /\ \A i \in DOMAIN TreeCandidates :
           TreeCandidates[i].module = RuleModuleName(RelativePath(TreeCandidates[i]))
    /\ \A i \in DOMAIN ret.value :
           /\ ret.value[i].module = RuleModuleName(RelativePath(ret.value[i]))
           /\ RelativePath(ret.value[i]) = "pkg/sub/__init__.py" => ret.value[i].module = "pkg.sub"
           /\ RelativePath(ret.value[i]) = "services/todo.py" => ret.value[i].module = "services.todo"

C17_Witness ==
    /\ ret.op = "discover_all"
    /\ ret.kind = "ok"
    /\ {"pkg/sub/__init__.py", "services/todo.py"} \subseteq ResultPaths
    /\ {"pkg.sub", "services.todo"} \subseteq {ret.value[i].module : i \in DOMAIN ret.value}

\* `seq` with each element kept at its first occurrence only
RECURSIVE Deduplicated(_)
Deduplicated(seq) ==
    IF seq = <<>> THEN <<>>
    ELSE LET front == Deduplicated(SubSeq(seq, 1, Len(seq) - 1))
             last  == seq[Len(seq)]
         IN  IF last \in Range(front) THEN front ELSE Append(front, last)

\* signature s holding each element of its sequence fields once
WithSets(s) ==
    [s EXCEPT !.methods = Deduplicated(@), !.decorators = Deduplicated(@),
              !.bases = Deduplicated(@), !.docstring_contains = Deduplicated(@)]

\* C18 as stated: the score discover_all reports for a candidate, and whether
\* the candidate is disqualified (reported at all), are those of the signature
\* holding each element of methods, decorators, bases and docstring_contains
\* once: repeating an element changes nothing.
C18_AsStated ==
    ret.op = "discover_all" =>
        \A i \in DOMAIN TreeCandidates :
            Observed(TreeCandidates[i]) = ScoreCandidate(TreeCandidates[i], WithSets(sig))

\* the name of an expression: a call is named by its callee
RECURSIVE CalleeName(_)
CalleeName(expr) ==
    IF expr.k = "Name" THEN expr.id
    ELSE IF expr.k = "Attribute" THEN CalleeName(expr.value) \o "." \o expr.attr
    ELSE CalleeName(expr.func)

\* candidate c of statement `node` with its decorators and bases as names
AsNames(c, node) ==
    [c EXCEPT !.decorators = [i \in DOMAIN node.decorator_list |-> CalleeName(node.decorator_list[i])],
              !.bases = [i \in DOMAIN node.bases |-> CalleeName(node.bases[i])]]

\* C19 as stated: discover_all scores every class as if each decorator and
\* base were the name of its expression, a call standing for its callee: a
\* class decorated @repeat(3) or @dataclass(frozen=True) is matched by a
\* signature requiring decorators {repeat} or {dataclass} as a class decorated
\* with the bare name is.
C19_AsStated ==
    ret.op = "discover_all" =>
        \A f \in DOMAIN tree : \A k \in DOMAIN tree[f].body :
            \A i \in DOMAIN TreeCandidates :
                /\ TreeCandidates[i].file_path = AbsPath(Root, tree[f].path)
                /\ TreeCandidates[i].lineno = tree[f].body[k].lineno
                /\ TreeCandidates[i].name = tree[f].body[k].name
                => Observed(TreeCandidates[i])
                       = ScoreCandidate(AsNames(TreeCandidates[i], tree[f].body[k]), sig)

\* C20 as stated: for a signature with regex = true, the score discover_all
\* reports for every candidate is the score under the same signature with
\* case_sensitive flipped.
C20_AsStated ==
    ret.op = "discover_all" /\ sig.regex =>
        \A i \in DOMAIN TreeCandidates :
            Observed(TreeCandidates[i])
                = ScoreCandidate(TreeCandidates[i], [sig EXCEPT !.case_sensitive = ~@])

\* the position at which the extractor encountered the symbol of result r
EncounterIndex(r) == CHOOSE i \in DOMAIN TreeCandidates : SameSymbol(r, TreeCandidates[i])

\* C22: among candidates of equal score the one encountered first comes first:
\* discover returns the first encountered candidate of maximal score, and
\* discover_all keeps results of equal score in encounter order.
C22_TiesByEncounterOrder ==
    /\ ret.op = "discover" /\ ret.kind = "ok" =>
           \A i \in DOMAIN TreeCandidates :
               /\ ScoreCandidate(TreeCandidates[i], sig) <= ret.value[1].score
               /\ ScoreCandidate(TreeCandidates[i], sig) = ret.value[1].score
                      => EncounterIndex(ret.value[1]) <= i
    /\ ret.op = "discover_all" =>
           \A i, j \in DOMAIN ret.value :
               i < j /\ ret.value[i].score = ret.value[j].score
                   => EncounterIndex(ret.value[i]) < EncounterIndex(ret.value[j])

C22_Witness ==
    /\ ret.op = "discover_all"
    /\ Len(ret.value) >= 2
    /\ ret.value[1].score = ret.value[2].score
    /\ ret.value[1].file_path = AbsPath(Root, "services.py")
    /\ ret.value[2].file_path = AbsPath(Root, "legacy/services.py")

C29_AsStated ==
    ret.op \in {"load", "discover_load"} =>
        \A i, j \in DOMAIN ret.ran : ret.ran[i] = ret.ran[j] => i = j

\* C30 as stated: a load() that follows a successful load() of the same result
\* returns the same object and executes no file, whether the first load got
\* the module by the import by name or by the path fallback.
C30_AsStated ==
    [][(ret.op = "load" /\ ret.kind = "ok" /\ ret'.op = "load" /\ held' = held
            /\ ret.value = held.result)
           => /\ ret'.kind = "ok"
              /\ ret'.obj = ret.obj
              /\ ret'.ran = <<>>]_vars

\* C24 as stated: discover(S, load=False) and discover_all(S) leave sys.path
\* and sys.modules as they were, whether they return or raise; a load may add
\* entries to sys.modules, and every entry that was there before the call is
\* still there after it, holding the same module.
C24_AsStated ==
    [][/\ ret'.op \in {"discover", "discover_all"} =>
              sysPath' = sysPath /\ sysModules' = sysModules
       /\ ret'.op \in {"load", "discover_load"} =>
              \A name \in DOMAIN sysModules :
                  name \in DOMAIN sysModules' /\ sysModules'[name] = sysModules[name]]_vars

\* the sys.modules names made by the path fallback
Synthetic(name) == StartsWith(name, ModuleNamespace \o ".")

\* C21 as stated: results with different file paths get different names under
\* _adaptive_discovery, so no load changes the file behind a name that an
\* earlier fallback load registered.
C21_AsStated ==
    [][\A name \in DOMAIN sysModules :
           Synthetic(name) /\ name \in DOMAIN sysModules'
               => sysModules'[name].file = sysModules[name].file]_vars

\* C25 as stated: no result has an empty module name; a package-init file
\* directly in root has the module name of its file stem.
C25_AsStated ==
    ret.op \in {"discover", "discover_all"} =>
        \A i \in DOMAIN ret.value :
            /\ ret.value[i].module # ""
            /\ ret.value[i].file_path = AbsPath(ret.value[i].root, "__init__.py")
                   => ret.value[i].module = Stem(ret.value[i].file_path)

\* C28 as stated: every load() that returns, returns the object defined in
\* the file of the result it was called on, whatever earlier loads of results
\* of other roots have put in sys.modules.
C28_AsStated ==
    ret.op = "load" /\ ret.kind = "ok" => ret.obj.file = ret.value[1].file_path

\* one call has taken root off sys.path again while the import of another
\* call, which is past its test of sys.path, has not run yet
Exposed ==
    \E t, u \in DOMAIN threads.of :
        /\ t # u
        /\ threads.of[t].cleanup_path /\ threads.of[t].pc = "done"
        /\ threads.of[u].pc = "import"
        /\ threads.of[u].r.root \notin Range(sysPath)

\* C26: when the callers serialize two load() calls on results of a root that
\* was not on sys.path, no call is ever about to import with root taken off
\* sys.path by the other; without serialization some interleaving of the
\* steps reaches that state (the witness).
C26_SerializedNeverExposed ==
    threads.serialized => ~Exposed

C26_Witness ==
    /\ threads # NoThreads
    /\ ~threads.serialized
    /\ Root \notin Range(threads.before)
    /\ Exposed

AllDone == threads # NoThreads /\ \A t \in DOMAIN threads.of : threads.of[t].pc = "done"

\* C27: once two concurrent load() calls on results of one root have both
\* finished, sys.path is what it was before either started, under every
\* interleaving of their steps.
C27_PathRestoredAfterBoth ==
    AllDone => sysPath = threads.before

C27_Witness ==
    /\ AllDone
    /\ ~threads.serialized
    /\ \A t \in DOMAIN threads.of : threads.of[t].cleanup_path
    /\ sysPath = threads.before

=============================================================================
